---- MODULE Spec2Model ----
(***************************************************************************)
(* Model of the particle oscillation engine                                *)
(* (src/particle_oscillation/backend_python/oscillation_engine.py) and of  *)
(* the asyncio server that drives it (api_server.py).                      *)
(*                                                                         *)
(* Number representation.  Python floats are modelled as fixed-point       *)
(* integers:                                                               *)
(*   axis values, amplitudes, damping, coupling, derived scalars,          *)
(*     global_coupling, environmental_noise   in units of 1/SCALE          *)
(*   times (dt, current_time, simulation_time) in units of 1/TimeScale s   *)
(*   base_frequency                            in units of 1/FreqScale Hz  *)
(*   harmonic multipliers                      in tenths                   *)
(*   angles and phases                         in units of 1/Turn turn     *)
(* so that base_frequency * multiplier * time is an angle in 1/Turn turns. *)
(* math.sin is computed by Bhaskara's rational approximation, math.sqrt by *)
(* the integer square root.                                                *)
(***************************************************************************)
EXTENDS Integers, Sequences, FiniteSets, TLC

\* fixed-point unit of the axis values
SCALE == 1000
\* time unit: 1/TimeScale seconds
TimeScale == 10000
\* angle unit: 1/Turn of a full turn (2*pi)
Turn == 1000000
\* resolution of the half turn inside Sin
HalfRes == 500

Abs(x) == IF x < 0 THEN -x ELSE x

\* Python's max(a, b) and min(a, b)
Max(a, b) == IF b > a THEN b ELSE a
Min(a, b) == IF b < a THEN b ELSE a

Clamp_missing(lo, hi, x) == x

\* max(lo, min(hi, x)) as written at every clamp of the source
Clamp(lo, hi, x) == Max(lo, Min(hi, x))

\* fixed-point product of two 1/SCALE values
Mul(a, b) == (a * b) \div SCALE

RECURSIVE SqrtIter(_, _, _)
SqrtIter(n, lo, hi) ==
    IF lo >= hi THEN lo
    ELSE LET mid == (lo + hi + 1) \div 2
         IN  IF mid * mid <= n THEN SqrtIter(n, mid, hi)
                               ELSE SqrtIter(n, lo, mid - 1)

\* math.sqrt on a sum of squares of 1/SCALE values: floor of the square root
Sqrt(n) == SqrtIter(n, 0, 40000)

\* math.sin of an angle given in 1/Turn turns; result in 1/SCALE
\* (Bhaskara: sin x ~ 16 x (pi - x) / (5 pi^2 - 4 x (pi - x)) on [0, pi])
Sin(angle) ==
    LET a == angle % Turn
        h == (IF a < Turn \div 2 THEN a ELSE a - Turn \div 2) \div (Turn \div (2 * HalfRes))
        p == h * (HalfRes - h)
        v == (16 * p * SCALE) \div (5 * HalfRes * HalfRes - 4 * p)
    IN  IF a < Turn \div 2 THEN v ELSE -v

----------------------------------------------------------------------------
(* FourDimensionalState and OscillationParameters *)

FourDimensionalState(w1, w2, w3, w4) ==
    [w1_projection |-> w1, w2_energy |-> w2, w3_spin |-> w3, w4_mass |-> w4]

\* FourDimensionalState.magnitude
magnitude(s) ==
    Sqrt(s.w1_projection * s.w1_projection + s.w2_energy * s.w2_energy
         + s.w3_spin * s.w3_spin + s.w4_mass * s.w4_mass)

\* the dataclass defaults.  sin_overflow abstracts the magnitude of
\* base_frequency: TRUE stands for a float so large that
\* 2*pi*base_frequency*t is inf, for which math.sin raises ValueError.
DefaultParameters ==
    [base_frequency |-> 10,
     amplitude_w1 |-> 1000, amplitude_w2 |-> 1500,
     amplitude_w3 |-> 800, amplitude_w4 |-> 1200,
     phase_w1 |-> 0, phase_w2 |-> 125000,
     phase_w3 |-> 250000, phase_w4 |-> 375000,
     damping_factor |-> 980, coupling_strength |-> 100,
     sin_overflow |-> FALSE]

\* one draw of create_oscillator's randomized parameters (every np.random.uniform
\* at an end of its range; damping_factor keeps its default)
DrawnParameters ==
    [base_frequency |-> 20,
     amplitude_w1 |-> 800, amplitude_w2 |-> 1000,
     amplitude_w3 |-> 1000, amplitude_w4 |-> 1400,
     phase_w1 |-> 0, phase_w2 |-> 500000,
     phase_w3 |-> 750000, phase_w4 |-> 250000,
     damping_factor |-> 980, coupling_strength |-> 150,
     sin_overflow |-> FALSE]

\* a request whose base_frequency is 1e308: 2*pi*base_frequency overflows to inf
HugeFrequencyParameters == [DefaultParameters EXCEPT !.sin_overflow = TRUE]

----------------------------------------------------------------------------
(* TetrahedronOscillator *)

\* history capacity, self.max_history
max_history == 1000

\* TetrahedronOscillator.__init__ (creation_time and the unused self.dt are
\* never read by the engine and are left out)
TetrahedronOscillator(particle_id, params) ==
    [particle_id |-> particle_id,
     params |-> params,
     current_time |-> 0,
     current_state |-> FourDimensionalState(0, SCALE, 0, SCALE),
     state_history |-> << >>,
     stability_factor |-> SCALE,
     energy_total |-> 0,
     phase_coherence |-> SCALE]

\* amplitude * math.sin(2*pi*base_frequency*mult*t + phase), mult in tenths
BaseOscillation(amplitude, base_frequency, mult, t, phase) ==
    Mul(amplitude, Sin(base_frequency * mult * t + phase))

CoupledState_in_place(params, s, t) ==
    LET w1_base == BaseOscillation(params.amplitude_w1, params.base_frequency, 10, t, params.phase_w1)
        w2_base == BaseOscillation(params.amplitude_w2, params.base_frequency, 12, t, params.phase_w2)
        w3_base == BaseOscillation(params.amplitude_w3, params.base_frequency, 8, t, params.phase_w3)
        w4_base == BaseOscillation(params.amplitude_w4, params.base_frequency, 11, t, params.phase_w4)
        coupling == params.coupling_strength
        damping == params.damping_factor
        w1_new == Mul(w1_base + Mul(coupling, (s.w2_energy * 3 + s.w4_mass * 2) \div 10), damping)
        w2_new == Mul(w2_base + Mul(coupling, (s.w3_spin * 4 + w1_new * 1) \div 10), damping)
        w3_new == Mul(w3_base + Mul(coupling, (w2_new * 5) \div 10)
                      + (3 * Sin(params.base_frequency * 30 * t)) \div 10, damping)
        w4_new == Mul(w4_base + Mul(coupling, (w1_new * 15) \div 100), damping)
    IN  FourDimensionalState(w1_new, w2_new, w3_new, w4_new)

\* the four new axis values of update_oscillations, from the state s held on
\* entry and the time t after the increment
CoupledState(params, s, t) ==
    LET w1_base == BaseOscillation(params.amplitude_w1, params.base_frequency, 10, t, params.phase_w1)
        w2_base == BaseOscillation(params.amplitude_w2, params.base_frequency, 12, t, params.phase_w2)
        w3_base == BaseOscillation(params.amplitude_w3, params.base_frequency, 8, t, params.phase_w3)
        w4_base == BaseOscillation(params.amplitude_w4, params.base_frequency, 11, t, params.phase_w4)
        coupling == params.coupling_strength
        w1_coupled == w1_base + Mul(coupling, (s.w2_energy * 3 + s.w4_mass * 2) \div 10)
        w2_coupled == w2_base + Mul(coupling, (s.w3_spin * 4 + s.w1_projection * 1) \div 10)
        w3_coupled == w3_base + Mul(coupling, (s.w2_energy * 5) \div 10)
                      + (3 * Sin(params.base_frequency * 30 * t)) \div 10
        w4_coupled == w4_base + Mul(coupling, (s.w1_projection * 15) \div 100)
        damping == params.damping_factor
    IN  FourDimensionalState(Mul(w1_coupled, damping), Mul(w2_coupled, damping),
                             Mul(w3_coupled, damping), Mul(w4_coupled, damping))

\* _calculate_stability.  The 1e-6 added to the magnitude is below the
\* fixed-point resolution; it only decides the case magnitude = 0, where every
\* ratio is 0 / 1e-6 = 0.
_calculate_stability(s) ==
    LET state_magnitude == magnitude(s)
        Ratio(w) == IF state_magnitude = 0 THEN 0
                    ELSE (Abs(w) * SCALE) \div state_magnitude
        balance_factor == SCALE - Abs(250 - Ratio(s.w1_projection))
                                - Abs(250 - Ratio(s.w2_energy))
                                - Abs(250 - Ratio(s.w3_spin))
                                - Abs(250 - Ratio(s.w4_mass))
    IN  Clamp(0, SCALE, balance_factor)

\* _calculate_total_energy
_calculate_total_energy(params, s) ==
    LET kinetic == (s.w1_projection * s.w1_projection + s.w2_energy * s.w2_energy
                    + s.w3_spin * s.w3_spin + s.w4_mass * s.w4_mass) \div (2 * SCALE)
        potential == Mul(params.coupling_strength,
                         (s.w1_projection * s.w2_energy + s.w2_energy * s.w3_spin
                          + s.w3_spin * s.w4_mass + s.w4_mass * s.w1_projection)
                         \div SCALE) \div 4
    IN  kinetic + potential

\* the sum of abs differences between history entries i-1 and i, for i in from..to
RECURSIVE SumPhaseDiffs(_, _, _)
SumPhaseDiffs(h, from, to) ==
    IF from > to THEN 0
    ELSE LET prev_state == h[from - 1][2]
             curr_state == h[from][2]
             diff == Abs(curr_state.w1_projection - prev_state.w1_projection)
                     + Abs(curr_state.w2_energy - prev_state.w2_energy)
                     + Abs(curr_state.w3_spin - prev_state.w3_spin)
                     + Abs(curr_state.w4_mass - prev_state.w4_mass)
         IN  diff + SumPhaseDiffs(h, from + 1, to)

\* _calculate_phase_coherence, over the history as it stands when it is called
_calculate_phase_coherence(state_history) ==
    IF Len(state_history) < 10 THEN SCALE
    ELSE LET n == Len(state_history)
             avg_diff == SumPhaseDiffs(state_history, n - 8, n) \div 9
         IN  Clamp(0, SCALE, SCALE - avg_diff \div 4)

_store_state_history_keeps_oldest(state_history, t, s) ==
    LET appended == Append(state_history, <<t, s>>)
    IN  IF Len(appended) > max_history
        THEN SubSeq(appended, 1, max_history)
        ELSE appended

\* _store_state_history: append a copy of the state, keep the last max_history
_store_state_history(state_history, t, s) ==
    LET appended == Append(state_history, <<t, s>>)
    IN  IF Len(appended) > max_history
        THEN SubSeq(appended, Len(appended) - max_history + 1, Len(appended))
        ELSE appended

\* whether update_oscillations raises: math.sin of a non-finite argument
\* raises ValueError at the first base oscillation (line 73), after
\* current_time has been incremented and before the state is written
update_raises(o) == o.params.sin_overflow

\* what update_oscillations leaves behind when it raises
update_oscillations_raised(o, dt) == [o EXCEPT !.current_time = o.current_time + dt]

\* update_oscillations when it returns
update_oscillations(o, dt) ==
    LET t == o.current_time + dt
        new_state == CoupledState(o.params, o.current_state, t)
    IN  [o EXCEPT !.current_time = t,
                  !.current_state = new_state,
                  !.stability_factor = _calculate_stability(new_state),
                  !.energy_total = _calculate_total_energy(o.params, new_state),
                  !.phase_coherence = _calculate_phase_coherence(o.state_history),
                  !.state_history = _store_state_history(o.state_history, t, new_state)]

----------------------------------------------------------------------------
(* Bounds of the model *)

\* running ticks explored in one behaviour
MaxTicks == 2
\* running ticks explored in one behaviour of SpecHistory
MaxAdvances == 1002
\* wall-clock seconds explored
MaxClock == 1

\* particle ids a request may name
ParticleIds == {"a", "b"}

\* the parameters a create request may carry; "none" is a request without
\* parameters, for which create_oscillator draws them
RequestParameters == {"none", "default", "huge_frequency"}

\* standard-normal draws behind np.random.normal(0, sigma) = sigma * z
NormalDraws == {-12, 1}

\* web sockets that may connect
WebSockets == {"ws1"}

----------------------------------------------------------------------------
(* State *)

VARIABLES
    \* ParticleOscillationSimulation: the dict self.oscillators in insertion
    \* order (a sequence of TetrahedronOscillator records keyed by particle_id)
    oscillators,
    simulation_time,
    is_running,
    update_rate,
    dt,
    global_coupling,
    environmental_noise,
    update_count,
    last_fps_time,
    current_fps,
    \* time.time(), in whole seconds
    now,
    \* simulation_loop: the statement the coroutine is at
    loop_pc,
    \* position of the for loop of update_simulation over the oscillators
    adv_idx,
    \* ConnectionManager.active_connections
    active_connections,
    \* manager.broadcast: iterator position, connection being sent to, and
    \* the local list disconnected
    bcast_idx,
    bcast_conn,
    disconnected,
    \* simulation_loop: the payload viz_data handed to manager.broadcast, as a
    \* one-element sequence while a broadcast is under way (else empty)
    bcast_message,
    \* per web socket: the statement its websocket_endpoint coroutine is at
    ws_pc,
    \* per web socket: whether the client still holds the connection open
    ws_open,
    \* the status of the last HTTP response sent (0: none yet)
    response,
    \* history variable: the running ticks begun so far
    ticks_begun,
    \* the running ticks a behaviour may begin (set once, by the initial state)
    tick_budget,
    \* history variable: TRUE from the first write of a running
    \* update_simulation until that call returns
    tick_open,
    \* history variable: the connections that were attached when the
    \* broadcast under way began and that it has not yet sent to
    not_yet_sent

engine_vars == <<oscillators, simulation_time, is_running, update_rate, dt,
                 global_coupling, environmental_noise,
                 update_count, last_fps_time, current_fps>>
loop_vars == <<loop_pc, adv_idx, bcast_idx, bcast_conn, disconnected, bcast_message>>
ws_vars == <<active_connections, ws_pc, ws_open>>
ghost_vars == <<ticks_begun, tick_budget, tick_open, not_yet_sent>>
vars == <<engine_vars, now, loop_vars, ws_vars, response, ghost_vars>>

\* keys of the dict
Keys(d) == {d[i].particle_id : i \in DOMAIN d}

\* position of key id in the dict (0 when absent)
IndexOf(d, id) ==
    IF id \in Keys(d) THEN CHOOSE i \in DOMAIN d : d[i].particle_id = id ELSE 0

Without_nothing(d, id) == d

\* del d[id]: d without the entry keyed id
RECURSIVE Without(_, _)
Without(d, id) ==
    IF d = << >> THEN << >>
    ELSE IF Head(d).particle_id = id THEN Tail(d)
    ELSE <<Head(d)>> \o Without(Tail(d), id)

\* self.dt = 1.0 / self.update_rate
StepOf(rate) == TimeScale \div rate

\* ParticleOscillationSimulation.__init__ and module start-up
Init ==
    /\ oscillators = << >>
    /\ simulation_time = 0
    /\ is_running = FALSE
    /\ update_rate = 60
    /\ dt = StepOf(60)
    /\ global_coupling = 50
    /\ environmental_noise = 10
    /\ update_count = 0
    /\ last_fps_time = 0
    /\ current_fps = 0
    /\ now = 0
    /\ loop_pc = "update"
    /\ adv_idx = 0
    /\ active_connections = << >>
    /\ bcast_idx = 0
    /\ bcast_conn = "none"
    /\ disconnected = << >>
    /\ bcast_message = << >>
    /\ ws_pc = [w \in WebSockets |-> "none"]
    /\ ws_open = [w \in WebSockets |-> FALSE]
    /\ response = 0
    /\ ticks_begun = 0
    /\ tick_budget = MaxTicks
    /\ tick_open = FALSE
    /\ not_yet_sent = {}

----------------------------------------------------------------------------
(* ParticleOscillationSimulation: the operations *)

\* params of create_oscillator: the caller's, or the random draw when None
ParametersOf(request_params) ==
    CASE request_params = "none" -> DrawnParameters
      [] request_params = "default" -> DefaultParameters
      [] request_params = "huge_frequency" -> HugeFrequencyParameters

create_oscillator_second_entry(d, particle_id, params) ==
    Append(d, TetrahedronOscillator(particle_id, params))

\* create_oscillator: self.oscillators[particle_id] = oscillator.  Assigning
\* to an existing key replaces the value in place.
create_oscillator(d, particle_id, params) ==
    LET oscillator == TetrahedronOscillator(particle_id, params)
    IN  IF particle_id \in Keys(d)
        THEN [d EXCEPT ![IndexOf(d, particle_id)] = oscillator]
        ELSE Append(d, oscillator)

remove_oscillator_oldest(d, particle_id) ==
    IF d = << >> THEN d ELSE Tail(d)

\* remove_oscillator: the dict afterwards
remove_oscillator(d, particle_id) ==
    IF particle_id \in Keys(d) THEN Without(d, particle_id) ELSE d

\* remove_oscillator: the value returned
remove_oscillator_result(d, particle_id) == particle_id \in Keys(d)

CouplePair_same_sign(d, gc, i, j) ==
    LET s1 == d[i].current_state
        s2 == d[j].current_state
        coupling_w2 == (gc * (s2.w2_energy - s1.w2_energy)) \div (SCALE * 10)
        coupling_w3 == (gc * (s2.w3_spin - s1.w3_spin)) \div (SCALE * 20)
    IN  [d EXCEPT ![i].current_state.w2_energy = @ + coupling_w2,
                  ![i].current_state.w3_spin = @ + coupling_w3,
                  ![j].current_state.w2_energy = @ + coupling_w2,
                  ![j].current_state.w3_spin = @ + coupling_w3]

CouplePair_history_shares_state(d, gc, i, j) ==
    LET s1 == d[i].current_state
        s2 == d[j].current_state
        coupling_w2 == (gc * (s2.w2_energy - s1.w2_energy)) \div (SCALE * 10)
        coupling_w3 == (gc * (s2.w3_spin - s1.w3_spin)) \div (SCALE * 20)
        coupled == [d EXCEPT ![i].current_state.w2_energy = @ + coupling_w2,
                             ![i].current_state.w3_spin = @ + coupling_w3,
                             ![j].current_state.w2_energy = @ - coupling_w2,
                             ![j].current_state.w3_spin = @ - coupling_w3]
        Shared(o) == IF o.state_history = << >> THEN o
                     ELSE [o EXCEPT !.state_history[Len(o.state_history)][2] =
                                        o.current_state]
    IN  [coupled EXCEPT ![i] = Shared(@), ![j] = Shared(@)]

CouplePair_one_sided(d, gc, i, j) ==
    LET s1 == d[i].current_state
        s2 == d[j].current_state
        coupling_w2 == (gc * (s2.w2_energy - s1.w2_energy)) \div (SCALE * 10)
        coupling_w3 == (gc * (s2.w3_spin - s1.w3_spin)) \div (SCALE * 20)
    IN  [d EXCEPT ![i].current_state.w2_energy = @ + coupling_w2,
                  ![i].current_state.w3_spin = @ + coupling_w3]

\* one exchange of _apply_global_coupling between positions i < j
CouplePair(d, gc, i, j) ==
    LET s1 == d[i].current_state
        s2 == d[j].current_state
        coupling_w2 == (gc * (s2.w2_energy - s1.w2_energy)) \div (SCALE * 10)
        coupling_w3 == (gc * (s2.w3_spin - s1.w3_spin)) \div (SCALE * 20)
    IN  [d EXCEPT ![i].current_state.w2_energy = @ + coupling_w2,
                  ![i].current_state.w3_spin = @ + coupling_w3,
                  ![j].current_state.w2_energy = @ - coupling_w2,
                  ![j].current_state.w3_spin = @ - coupling_w3]

\* the nested loops of _apply_global_coupling from pair (i, j) on
RECURSIVE CoupleFrom(_, _, _, _)
CoupleFrom(d, gc, i, j) ==
    IF i > Len(d) THEN d
    ELSE IF j > Len(d) THEN CoupleFrom(d, gc, i + 1, i + 2)
    ELSE CoupleFrom(CouplePair(d, gc, i, j), gc, i, j + 1)

\* _apply_global_coupling
_apply_global_coupling(d, gc) ==
    IF Len(d) < 2 THEN d ELSE CoupleFrom(d, gc, 1, 2)

modified_dt_default_sigma(step, noise, z) ==
    LET noise_factor == SCALE + 10 * z
    IN  (step * noise_factor) \div SCALE

\* noise_factor = 1.0 + np.random.normal(0, environmental_noise);
\* modified_dt = self.dt * noise_factor
modified_dt(step, noise, z) ==
    LET noise_factor == SCALE + noise * z
    IN  (step * noise_factor) \div SCALE

reset_oscillators_kept(d) == d

\* reset_simulation: the dict afterwards (self.oscillators.clear())
reset_oscillators(d) == << >>

\* _update_performance_metrics: <<update_count, last_fps_time, current_fps>>
\* afterwards, with current_time the reading of time.time()
_update_performance_metrics(count, last, fps, current_time) ==
    IF current_time - last >= 1
    THEN <<0, current_time, ((count + 1) * SCALE) \div (current_time - last)>>
    ELSE <<count + 1, last, fps>>

\* get_oscillation_data
get_oscillation_data(o) ==
    [particle_id |-> o.particle_id,
     timestamp |-> o.current_time,
     state |-> o.current_state,
     derived_properties |->
        [stability_factor |-> o.stability_factor,
         energy_total |-> o.energy_total,
         phase_coherence |-> o.phase_coherence,
         state_magnitude |-> magnitude(o.current_state)],
     parameters |-> o.params]

RECURSIVE SumOver(_, _)
SumOver(d, field) ==
    IF d = << >> THEN 0
    ELSE get_oscillation_data(Head(d)).derived_properties[field] + SumOver(Tail(d), field)

get_simulation_state_sum_not_mean ==
    [simulation_time |-> simulation_time,
     is_running |-> is_running,
     oscillator_count |-> Len(oscillators),
     oscillators |-> [id \in Keys(oscillators) |->
                        get_oscillation_data(oscillators[IndexOf(oscillators, id)])],
     global_metrics |->
        [total_energy |-> SumOver(oscillators, "energy_total"),
         average_stability |-> SumOver(oscillators, "stability_factor"),
         current_fps |-> current_fps,
         global_coupling |-> global_coupling,
         environmental_noise |-> environmental_noise]]

\* get_simulation_state
get_simulation_state ==
    [simulation_time |-> simulation_time,
     is_running |-> is_running,
     oscillator_count |-> Len(oscillators),
     oscillators |-> [id \in Keys(oscillators) |->
                        get_oscillation_data(oscillators[IndexOf(oscillators, id)])],
     global_metrics |->
        [total_energy |-> SumOver(oscillators, "energy_total"),
         average_stability |->
            IF Len(oscillators) > 0
            THEN SumOver(oscillators, "stability_factor") \div Len(oscillators)
            ELSE 0,
         current_fps |-> current_fps,
         global_coupling |-> global_coupling,
         environmental_noise |-> environmental_noise]]

\* get_visualization_data: one entry of 'particles'
particle_viz(o) ==
    [id |-> o.particle_id,
     position |-> [x |-> o.current_state.w1_projection,
                   y |-> o.current_state.w2_energy,
                   z |-> o.current_state.w3_spin],
     mass |-> o.current_state.w4_mass,
     stability |-> o.stability_factor,
     energy |-> o.energy_total,
     coherence |-> o.phase_coherence,
     magnitude |-> magnitude(o.current_state),
     color_intensity |-> Min(SCALE, Abs(o.current_state.w2_energy) \div 2)]

\* get_visualization_data
get_visualization_data ==
    [timestamp |-> simulation_time,
     particles |-> [i \in DOMAIN oscillators |-> particle_viz(oscillators[i])]]

\* Python's s[start:] for a list s and an integer start
SliceFrom(s, start) ==
    LET first == IF start < 0 THEN Max(Len(s) + start, 0) ELSE Min(start, Len(s))
    IN  SubSeq(s, first + 1, Len(s))

\* get_history_data: the slice state_history[-last_n:], or the whole history
\* when last_n is falsy, as a list of entries
get_history_data(state_history, last_n) ==
    LET history_slice == IF last_n # 0 THEN SliceFrom(state_history, -last_n)
                                       ELSE state_history
    IN  [k \in DOMAIN history_slice |->
            [time |-> history_slice[k][1],
             state |-> history_slice[k][2],
             magnitude |-> magnitude(history_slice[k][2])]]

----------------------------------------------------------------------------
(* simulation_loop: one action per statement between two suspension points.  *)
(* update_simulation is a plain function: the coroutine runs it, from        *)
(* "update" to "broadcast", without suspending.                              *)

\* the statements at which the coroutine is suspended in an await
AwaitPoints == {"send", "sleep", "backoff"}

\* whether another coroutine (a request handler) may run now: the handlers
\* are async def and run on the loop's own event loop, so only while the
\* simulation loop is suspended
HandlerMayRun == loop_pc \in AwaitPoints

update_returns_early_never == FALSE

\* if not self.is_running: return
update_returns_early == ~is_running

\* update_simulation while not running: return at once
UpdateWhileStopped ==
    /\ loop_pc = "update"
    /\ update_returns_early
    /\ loop_pc' = "broadcast"
    /\ UNCHANGED <<engine_vars, now, adv_idx, bcast_idx, bcast_conn, disconnected, bcast_message,
                   ws_vars, response, ghost_vars>>

UpdateBegin_initial_step ==
    /\ loop_pc = "update"
    /\ ~update_returns_early
    /\ ticks_begun < tick_budget
    /\ ticks_begun' = ticks_begun + 1
    /\ simulation_time' = simulation_time + StepOf(60)
    /\ tick_open' = TRUE
    /\ loop_pc' = "coupling"
    /\ UNCHANGED <<oscillators, is_running, update_rate, dt, global_coupling,
                   environmental_noise, update_count, last_fps_time, current_fps,
                   now, adv_idx, bcast_idx, bcast_conn, disconnected, bcast_message, ws_vars, response,
                   tick_budget, not_yet_sent>>

UpdateBegin_skips_coupling ==
    /\ loop_pc = "update"
    /\ ~update_returns_early
    /\ ticks_begun < tick_budget
    /\ ticks_begun' = ticks_begun + 1
    /\ simulation_time' = simulation_time + dt
    /\ tick_open' = TRUE
    /\ loop_pc' = "advance"
    /\ adv_idx' = 1
    /\ UNCHANGED <<oscillators, is_running, update_rate, dt, global_coupling,
                   environmental_noise, update_count, last_fps_time, current_fps,
                   now, bcast_idx, bcast_conn, disconnected, bcast_message, ws_vars, response,
                   tick_budget, not_yet_sent>>

\* update_simulation while running: self.simulation_time += self.dt
UpdateBegin ==
    /\ loop_pc = "update"
    /\ ~update_returns_early
    /\ ticks_begun < tick_budget
    /\ ticks_begun' = ticks_begun + 1
    /\ simulation_time' = simulation_time + dt
    /\ tick_open' = TRUE
    /\ loop_pc' = "coupling"
    /\ UNCHANGED <<oscillators, is_running, update_rate, dt, global_coupling,
                   environmental_noise, update_count, last_fps_time, current_fps,
                   now, adv_idx, bcast_idx, bcast_conn, disconnected, bcast_message, ws_vars, response,
                   tick_budget, not_yet_sent>>

\* self._apply_global_coupling()
GlobalCoupling ==
    /\ loop_pc = "coupling"
    /\ oscillators' = _apply_global_coupling(oscillators, global_coupling)
    /\ loop_pc' = "advance"
    /\ adv_idx' = 1
    /\ UNCHANGED <<simulation_time, is_running, update_rate, dt, global_coupling,
                   environmental_noise, update_count, last_fps_time, current_fps,
                   now, bcast_idx, bcast_conn, disconnected, bcast_message, ws_vars, response, ghost_vars>>

AdvanceOscillator_reads_first ==
    /\ loop_pc = "advance"
    /\ adv_idx <= Len(oscillators)
    /\ ~update_raises(oscillators[adv_idx])
    /\ \E z \in NormalDraws :
          oscillators' = [oscillators EXCEPT ![adv_idx] =
              update_oscillations([@ EXCEPT !.current_state = oscillators[1].current_state],
                                  modified_dt(dt, environmental_noise, z))]
    /\ adv_idx' = adv_idx + 1
    /\ UNCHANGED <<simulation_time, is_running, update_rate, dt, global_coupling,
                   environmental_noise, update_count, last_fps_time, current_fps,
                   now, loop_pc, bcast_idx, bcast_conn, disconnected, bcast_message, ws_vars,
                   response, ghost_vars>>

\* one pass of the for loop over self.oscillators.values()
AdvanceOscillator ==
    /\ loop_pc = "advance"
    /\ adv_idx <= Len(oscillators)
    /\ ~update_raises(oscillators[adv_idx])
    /\ \E z \in NormalDraws :
          oscillators' = [oscillators EXCEPT ![adv_idx] =
              update_oscillations(@, modified_dt(dt, environmental_noise, z))]
    /\ adv_idx' = adv_idx + 1
    /\ UNCHANGED <<simulation_time, is_running, update_rate, dt, global_coupling,
                   environmental_noise, update_count, last_fps_time, current_fps,
                   now, loop_pc, bcast_idx, bcast_conn, disconnected, bcast_message, ws_vars,
                   response, ghost_vars>>

\* a pass in which update_oscillations raises: the exception leaves
\* update_simulation and is caught by the loop's except clause, which prints
\* it and starts the one-second sleep
AdvanceRaises ==
    /\ loop_pc = "advance"
    /\ adv_idx <= Len(oscillators)
    /\ update_raises(oscillators[adv_idx])
    /\ \E z \in NormalDraws :
          oscillators' = [oscillators EXCEPT ![adv_idx] =
              update_oscillations_raised(@, modified_dt(dt, environmental_noise, z))]
    /\ adv_idx' = 0
    /\ loop_pc' = "backoff"
    /\ UNCHANGED <<simulation_time, is_running, update_rate, dt, global_coupling,
                   environmental_noise, update_count, last_fps_time, current_fps,
                   now, bcast_idx, bcast_conn, disconnected, bcast_message, ws_vars, response, ghost_vars>>

\* self._update_performance_metrics() and the return of update_simulation
UpdateMetrics ==
    /\ loop_pc = "advance"
    /\ adv_idx > Len(oscillators)
    /\ LET m == _update_performance_metrics(update_count, last_fps_time, current_fps, now)
       IN  /\ update_count' = m[1]
           /\ last_fps_time' = m[2]
           /\ current_fps' = m[3]
    /\ adv_idx' = 0
    /\ tick_open' = FALSE
    /\ loop_pc' = "broadcast"
    /\ UNCHANGED <<oscillators, simulation_time, is_running, update_rate, dt,
                   global_coupling, environmental_noise, now, bcast_idx, bcast_conn,
                   disconnected, bcast_message, ws_vars, response, ticks_begun, tick_budget, not_yet_sent>>

\* manager.disconnect(websocket)
disconnect(conns, websocket) ==
    LET Idx == {i \in DOMAIN conns : conns[i] = websocket}
    IN  IF Idx = {} THEN conns
        ELSE LET k == CHOOSE i \in Idx : \A j \in Idx : i <= j
             IN  SubSeq(conns, 1, k - 1) \o SubSeq(conns, k + 1, Len(conns))

RECURSIVE DisconnectAll(_, _)
DisconnectAll(conns, gone) ==
    IF gone = << >> THEN conns
    ELSE DisconnectAll(disconnect(conns, Head(gone)), Tail(gone))

\* the connections of a list
Members(conns) == {conns[i] : i \in DOMAIN conns}

\* if len(manager.active_connections) > 0: build the payload and enter
\* manager.broadcast up to its first await; otherwise go to the sleep
BroadcastCheck ==
    /\ loop_pc = "broadcast"
    /\ IF Len(active_connections) > 0
       THEN /\ bcast_idx' = 1
            /\ bcast_conn' = active_connections[1]
            /\ disconnected' = << >>
            /\ bcast_message' = <<get_visualization_data>>
            /\ not_yet_sent' = Members(active_connections)
            /\ loop_pc' = "send"
       ELSE /\ loop_pc' = "sleep"
            /\ UNCHANGED <<bcast_idx, bcast_conn, disconnected, bcast_message,
                           not_yet_sent>>
    /\ UNCHANGED <<engine_vars, now, adv_idx, ws_vars, response,
                   ticks_begun, tick_budget, tick_open>>

\* await connection.send_text(message) completes (or raises, when the client
\* is gone) and the for loop over the live list goes on; after the last
\* connection the disconnected ones are removed and the loop goes to sleep
SendDone ==
    /\ loop_pc = "send"
    /\ LET gone == IF ws_open[bcast_conn] THEN disconnected
                   ELSE Append(disconnected, bcast_conn)
       IN  IF bcast_idx + 1 <= Len(active_connections)
           THEN /\ bcast_idx' = bcast_idx + 1
                /\ bcast_conn' = active_connections[bcast_idx + 1]
                /\ disconnected' = gone
                /\ not_yet_sent' = not_yet_sent \ {bcast_conn}
                /\ UNCHANGED <<loop_pc, active_connections, bcast_message>>
           ELSE /\ active_connections' = DisconnectAll(active_connections, gone)
                /\ bcast_idx' = 0
                /\ bcast_conn' = "none"
                /\ disconnected' = << >>
                /\ bcast_message' = << >>
                /\ not_yet_sent' = {}
                /\ loop_pc' = "sleep"
    /\ UNCHANGED <<engine_vars, now, adv_idx, ws_pc, ws_open, response,
                   ticks_begun, tick_budget, tick_open>>

\* await asyncio.sleep(simulation.dt) returns
SleepDone ==
    /\ loop_pc = "sleep"
    /\ loop_pc' = "update"
    /\ UNCHANGED <<engine_vars, now, adv_idx, bcast_idx, bcast_conn, disconnected, bcast_message,
                   ws_vars, response, ghost_vars>>

BackoffDone_loop_ends ==
    /\ loop_pc = "backoff"
    /\ loop_pc' = "ended"
    /\ UNCHANGED <<engine_vars, now, adv_idx, bcast_idx, bcast_conn, disconnected, bcast_message,
                   ws_vars, response, ghost_vars>>

\* await asyncio.sleep(1) of the except clause returns
BackoffDone ==
    /\ loop_pc = "backoff"
    /\ loop_pc' = "update"
    /\ UNCHANGED <<engine_vars, now, adv_idx, bcast_idx, bcast_conn, disconnected, bcast_message,
                   ws_vars, response, ghost_vars>>

\* the wall clock moves on while the loop is suspended
ClockTick ==
    /\ loop_pc \in AwaitPoints
    /\ now < MaxClock
    /\ now' = now + 1
    /\ UNCHANGED <<engine_vars, loop_vars, ws_vars, response, ghost_vars>>

----------------------------------------------------------------------------
(* api_server.py: the request handlers.  Each is an async def without an     *)
(* await around its use of the simulation, so it runs as one step.           *)

\* the HTTP status of a response
Respond(status, message) == status

\* POST /api/oscillators/create with a particle_id
CreateHandler(particle_id, request_params) ==
    /\ HandlerMayRun
    /\ oscillators' = create_oscillator(oscillators, particle_id, ParametersOf(request_params))
    /\ response' = Respond(200, "Oscillator created")
    /\ UNCHANGED <<simulation_time, is_running, update_rate, dt, global_coupling,
                   environmental_noise, update_count, last_fps_time, current_fps,
                   now, loop_vars, ws_vars, ghost_vars>>

\* a request field that is absent (Python's None)
None == "None"

\* request.particle_id or f"particle_{int(time.time()*1000)}": the requested
\* id unless it is falsy (None or the empty string), else the id made of the
\* clock reading in milliseconds
particle_id_or_synthesized(request_id, clock) ==
    IF request_id = None \/ request_id = ""
    THEN "particle_" \o ToString(clock * 1000)
    ELSE request_id

\* POST /api/oscillators/create whatever the request's particle_id is
CreateRequestHandler(request_id, request_params) ==
    CreateHandler(particle_id_or_synthesized(request_id, now), request_params)

\* DELETE /api/oscillators/{particle_id}
RemoveHandler(particle_id) ==
    /\ HandlerMayRun
    /\ oscillators' = remove_oscillator(oscillators, particle_id)
    /\ response' = IF remove_oscillator_result(oscillators, particle_id)
                   THEN Respond(200, "Oscillator removed")
                   ELSE Respond(404, "Oscillator not found")
    /\ UNCHANGED <<simulation_time, is_running, update_rate, dt, global_coupling,
                   environmental_noise, update_count, last_fps_time, current_fps,
                   now, loop_vars, ws_vars, ghost_vars>>

start_simulation_toggles == ~is_running

\* start_simulation: the value written to self.is_running
start_simulation == TRUE
\* stop_simulation: the value written to self.is_running
stop_simulation == FALSE

\* POST /api/simulation/start
StartHandler ==
    /\ HandlerMayRun
    /\ is_running' = start_simulation
    /\ response' = Respond(200, "Simulation started")
    /\ UNCHANGED <<oscillators, simulation_time, update_rate, dt, global_coupling,
                   environmental_noise, update_count, last_fps_time, current_fps,
                   now, loop_vars, ws_vars, ghost_vars>>

\* POST /api/simulation/stop
StopHandler ==
    /\ HandlerMayRun
    /\ is_running' = stop_simulation
    /\ response' = Respond(200, "Simulation stopped")
    /\ UNCHANGED <<oscillators, simulation_time, update_rate, dt, global_coupling,
                   environmental_noise, update_count, last_fps_time, current_fps,
                   now, loop_vars, ws_vars, ghost_vars>>

\* POST /api/simulation/reset: reset_simulation
ResetHandler ==
    /\ HandlerMayRun
    /\ simulation_time' = 0
    /\ is_running' = FALSE
    /\ oscillators' = reset_oscillators(oscillators)
    /\ response' = Respond(200, "Simulation reset")
    /\ tick_open' = FALSE
    /\ UNCHANGED <<update_rate, dt, global_coupling, environmental_noise,
                   update_count, last_fps_time, current_fps, now, loop_vars, ws_vars,
                   ticks_begun, tick_budget, not_yet_sent>>

\* GET /api/simulation/state: the body is get_simulation_state of this state
GetStateHandler ==
    /\ HandlerMayRun
    /\ response' = Respond(200, "simulation state")
    /\ UNCHANGED <<engine_vars, now, loop_vars, ws_vars, ghost_vars>>

\* GET /api/visualization/data: the body is get_visualization_data of this
\* state
GetVisualizationHandler ==
    /\ HandlerMayRun
    /\ response' = Respond(200, "visualization data")
    /\ UNCHANGED <<engine_vars, now, loop_vars, ws_vars, ghost_vars>>

\* GET /api/oscillators/{particle_id}/history?last_n=...: 404 for an unknown
\* id, otherwise the body holds get_history_data(last_n) of that oscillator
HistoryHandler(particle_id, last_n) ==
    /\ HandlerMayRun
    /\ response' = IF particle_id \in Keys(oscillators)
                   THEN Respond(200, "history")
                   ELSE Respond(404, "Oscillator not found")
    /\ UNCHANGED <<engine_vars, now, loop_vars, ws_vars, ghost_vars>>

\* the configurations a request may carry (a field left out is None)
ConfigRequests ==
    { [global_coupling |-> 1500, environmental_noise |-> 500, update_rate |-> 5] }

\* max(0.0, min(1.0, config.global_coupling))
ClampGlobalCoupling(x) == Clamp(0, SCALE, x)
\* max(0.0, min(0.1, config.environmental_noise))
ClampEnvironmentalNoise(x) == Clamp(0, SCALE \div 10, x)
ClampUpdateRate_missing(x) == x

\* max(10, min(120, config.update_rate))
ClampUpdateRate(x) == Clamp(10, 120, x)

\* the 'config' object of the handler's response, read after the assignments
update_simulation_config_result ==
    [global_coupling |-> global_coupling,
     environmental_noise |-> environmental_noise,
     update_rate |-> update_rate]

\* POST /api/simulation/config
ConfigHandler(config) ==
    /\ HandlerMayRun
    /\ global_coupling' = IF "global_coupling" \in DOMAIN config
                          THEN ClampGlobalCoupling(config.global_coupling)
                          ELSE global_coupling
    /\ environmental_noise' = IF "environmental_noise" \in DOMAIN config
                              THEN ClampEnvironmentalNoise(config.environmental_noise)
                              ELSE environmental_noise
    /\ update_rate' = IF "update_rate" \in DOMAIN config
                      THEN ClampUpdateRate(config.update_rate)
                      ELSE update_rate
    /\ dt' = IF "update_rate" \in DOMAIN config THEN StepOf(update_rate') ELSE dt
    /\ response' = Respond(200, "Configuration updated")
    /\ UNCHANGED <<oscillators, simulation_time, is_running, update_count,
                   last_fps_time, current_fps, now, loop_vars, ws_vars, ghost_vars>>

----------------------------------------------------------------------------
(* api_server.py: websocket_endpoint *)

\* manager.connect, then get_simulation_state() and the start of the first
\* send_text
WsConnect(w) ==
    /\ HandlerMayRun
    /\ ws_pc[w] \in {"none", "ended"}
    /\ \A i \in DOMAIN active_connections : active_connections[i] # w
    /\ active_connections' = Append(active_connections, w)
    /\ ws_open' = [ws_open EXCEPT ![w] = TRUE]
    /\ ws_pc' = [ws_pc EXCEPT ![w] = "initial_send"]
    /\ UNCHANGED <<engine_vars, now, loop_vars, response, ghost_vars>>

\* the send of the initial state completes, or raises WebSocketDisconnect,
\* which the outer except answers with manager.disconnect
WsInitialSent(w) ==
    /\ HandlerMayRun
    /\ ws_pc[w] = "initial_send"
    /\ IF ws_open[w]
       THEN /\ ws_pc' = [ws_pc EXCEPT ![w] = "receive"]
            /\ UNCHANGED active_connections
       ELSE /\ ws_pc' = [ws_pc EXCEPT ![w] = "ended"]
            /\ active_connections' = disconnect(active_connections, w)
    /\ UNCHANGED <<engine_vars, now, loop_vars, ws_open, response, ghost_vars>>

\* receive_text raises WebSocketDisconnect: the inner except breaks out of
\* the while loop and the handler returns
WsReceiveDisconnect(w) ==
    /\ HandlerMayRun
    /\ ws_pc[w] = "receive"
    /\ ~ws_open[w]
    /\ ws_pc' = [ws_pc EXCEPT ![w] = "ended"]
    /\ UNCHANGED <<engine_vars, now, loop_vars, active_connections, ws_open,
                   response, ghost_vars>>

\* the client closes its end
WsClientClose(w) ==
    /\ ws_open[w]
    /\ ws_open' = [ws_open EXCEPT ![w] = FALSE]
    /\ UNCHANGED <<engine_vars, now, loop_vars, active_connections, ws_pc,
                   response, ghost_vars>>

----------------------------------------------------------------------------
(* Spec: the engine driven by the simulation loop and by HTTP requests, with  *)
(* no web socket client (manager.active_connections stays empty, so the loop  *)
(* never enters manager.broadcast).                                           *)

UpdateSimulationStep ==
    \/ UpdateWhileStopped
    \/ UpdateBegin
    \/ GlobalCoupling
    \/ AdvanceOscillator
    \/ AdvanceRaises
    \/ UpdateMetrics

Next ==
    \/ UpdateSimulationStep
    \/ BroadcastCheck
    \/ SleepDone
    \/ BackoffDone
    \/ \E id \in ParticleIds, rp \in RequestParameters : CreateHandler(id, rp)
    \/ \E id \in ParticleIds : RemoveHandler(id)
    \/ StartHandler
    \/ StopHandler
    \/ ResetHandler
    \/ GetStateHandler
    \/ \E config \in ConfigRequests : ConfigHandler(config)

Spec == Init /\ [][Next]_vars

----------------------------------------------------------------------------
(* SpecServer: the whole server, web sockets and wall clock included, over a  *)
(* smaller set of requests.                                                   *)

ServerParticleIds == {"a"}
ServerRequestParameters == {"default", "huge_frequency"}

LoopStep ==
    \/ UpdateSimulationStep
    \/ BroadcastCheck
    \/ SendDone
    \/ SleepDone
    \/ BackoffDone

NextServer ==
    \/ LoopStep
    \/ ClockTick
    \/ \E id \in ServerParticleIds, rp \in ServerRequestParameters : CreateHandler(id, rp)
    \/ \E id \in ServerParticleIds : RemoveHandler(id)
    \/ StartHandler
    \/ StopHandler
    \/ ResetHandler
    \/ GetStateHandler
    \/ \E w \in WebSockets : WsConnect(w)
    \/ \E w \in WebSockets : WsInitialSent(w)
    \/ \E w \in WebSockets : WsReceiveDisconnect(w)
    \/ \E w \in WebSockets : WsClientClose(w)

SpecServer == Init /\ [][NextServer]_vars

\* the event loop resumes simulation_loop when the timer of the
\* asyncio.sleep it awaits expires
FairSpecServer == SpecServer /\ WF_vars(SleepDone) /\ WF_vars(BackoffDone)

----------------------------------------------------------------------------
(* SpecCoupling: a registry of up to three oscillators with finite           *)
(* parameters, created, started and ticked.                                  *)

CouplingParticleIds == {"a", "b", "c"}
CouplingRequestParameters == {"none", "default"}

NextCoupling ==
    \/ UpdateWhileStopped
    \/ UpdateBegin
    \/ GlobalCoupling
    \/ AdvanceOscillator
    \/ UpdateMetrics
    \/ BroadcastCheck
    \/ SleepDone
    \/ \E id \in CouplingParticleIds, rp \in CouplingRequestParameters : CreateHandler(id, rp)
    \/ StartHandler

SpecCoupling == Init /\ [][NextCoupling]_vars

----------------------------------------------------------------------------
(* SpecHistory: long runs.  The server has been set up by requests (the      *)
(* oscillators created, the configuration posted with environmental_noise 0, *)
(* the simulation started) and is then left to tick MaxAdvances times.       *)

HistorySetups ==
    { [oscillators |-> <<TetrahedronOscillator("a", DefaultParameters)>>,
       update_rate |-> 60, global_coupling |-> 50],
      [oscillators |-> <<TetrahedronOscillator("a", DefaultParameters),
                         TetrahedronOscillator("b", DrawnParameters)>>,
       update_rate |-> 10, global_coupling |-> SCALE] }

InitHistory ==
    /\ \E setup \in HistorySetups :
          /\ oscillators = setup.oscillators
          /\ update_rate = setup.update_rate
          /\ dt = StepOf(setup.update_rate)
          /\ global_coupling = setup.global_coupling
    /\ simulation_time = 0
    /\ is_running = TRUE
    /\ environmental_noise = 0
    /\ update_count = 0
    /\ last_fps_time = 0
    /\ current_fps = 0
    /\ now = 0
    /\ loop_pc = "sleep"
    /\ adv_idx = 0
    /\ active_connections = << >>
    /\ bcast_idx = 0
    /\ bcast_conn = "none"
    /\ disconnected = << >>
    /\ bcast_message = << >>
    /\ ws_pc = [w \in WebSockets |-> "none"]
    /\ ws_open = [w \in WebSockets |-> FALSE]
    /\ response = 200
    /\ ticks_begun = 0
    /\ tick_budget = MaxAdvances
    /\ tick_open = FALSE
    /\ not_yet_sent = {}

NextHistory ==
    \/ UpdateBegin
    \/ GlobalCoupling
    \/ AdvanceOscillator
    \/ UpdateMetrics
    \/ BroadcastCheck
    \/ SleepDone

SpecHistory == InitHistory /\ [][NextHistory]_vars

----------------------------------------------------------------------------
(* SpecQueries: the engine with its read-only queries (state, visualization,  *)
(* history) between creations, removals, resets and ticks.                    *)

QueryRequestParameters == {"none", "default"}
\* the values of last_n a history request may carry
HistoryCounts == {0, 1, 2, 5}

NextQueries ==
    \/ UpdateWhileStopped
    \/ UpdateBegin
    \/ GlobalCoupling
    \/ AdvanceOscillator
    \/ UpdateMetrics
    \/ BroadcastCheck
    \/ SleepDone
    \/ \E id \in ParticleIds, rp \in QueryRequestParameters : CreateHandler(id, rp)
    \/ \E id \in ParticleIds : RemoveHandler(id)
    \/ StartHandler
    \/ ResetHandler
    \/ GetStateHandler
    \/ GetVisualizationHandler
    \/ \E id \in ParticleIds, last_n \in HistoryCounts : HistoryHandler(id, last_n)

SpecQueries == Init /\ [][NextQueries]_vars

----------------------------------------------------------------------------
(* SpecConfig: configuration requests with every combination of supplied and  *)
(* omitted fields, below, inside and above the ranges, around an engine that  *)
(* is started and ticked with an empty registry.                              *)

GlobalCouplingInputs == {-500, 300, 1500}
EnvironmentalNoiseInputs == {-10, 50, 500}
UpdateRateInputs == {-1, 5, 30, 200}
ConfigFields == {"global_coupling", "environmental_noise", "update_rate"}

\* a SimulationConfigRequest: the fields of F carry a value, the others are
\* None
ConfigInputs ==
    { [f \in F |-> c[f]] :
        c \in [global_coupling : GlobalCouplingInputs,
               environmental_noise : EnvironmentalNoiseInputs,
               update_rate : UpdateRateInputs],
        F \in SUBSET ConfigFields }

NextConfig ==
    \/ UpdateWhileStopped
    \/ UpdateBegin
    \/ GlobalCoupling
    \/ UpdateMetrics
    \/ BroadcastCheck
    \/ SleepDone
    \/ StartHandler
    \/ StopHandler
    \/ \E config \in ConfigInputs : ConfigHandler(config)

SpecConfig == Init /\ [][NextConfig]_vars

----------------------------------------------------------------------------
(* SpecCreate: create requests without a usable particle_id, while the wall   *)
(* clock advances and the engine ticks.                                       *)

\* the particle_id of a request that leaves the id to the server
OmittedIds == {None, ""}
CreateRequestParameters == {"none", "default"}

NextCreate ==
    \/ UpdateWhileStopped
    \/ UpdateBegin
    \/ GlobalCoupling
    \/ AdvanceOscillator
    \/ UpdateMetrics
    \/ BroadcastCheck
    \/ SleepDone
    \/ ClockTick
    \/ StartHandler
    \/ \E rid \in OmittedIds, rp \in CreateRequestParameters :
          CreateRequestHandler(rid, rp)

SpecCreate == Init /\ [][NextCreate]_vars

----------------------------------------------------------------------------
(* SpecDeterministic: oscillators with fixed parameters, ticked before and    *)
(* after requests that switch noise and global coupling off and change the    *)
(* update rate.                                                               *)

DeterministicConfigs ==
    { [global_coupling |-> 0, environmental_noise |-> 0],
      [update_rate |-> 30] }

NextDeterministic ==
    \/ UpdateWhileStopped
    \/ UpdateBegin
    \/ GlobalCoupling
    \/ AdvanceOscillator
    \/ UpdateMetrics
    \/ BroadcastCheck
    \/ SleepDone
    \/ \E id \in ParticleIds : CreateHandler(id, "default")
    \/ StartHandler
    \/ StopHandler
    \/ \E config \in DeterministicConfigs : ConfigHandler(config)

SpecDeterministic == Init /\ [][NextDeterministic]_vars

----------------------------------------------------------------------------
(* SpecBroadcast: the loop and its broadcasts with two web socket clients     *)
(* that connect and close at any time, around an engine that is started and   *)
(* ticked with an empty registry.                                             *)

BroadcastWebSockets == {"ws1", "ws2"}

InitBroadcast ==
    /\ oscillators = << >>
    /\ simulation_time = 0
    /\ is_running = FALSE
    /\ update_rate = 60
    /\ dt = StepOf(60)
    /\ global_coupling = 50
    /\ environmental_noise = 10
    /\ update_count = 0
    /\ last_fps_time = 0
    /\ current_fps = 0
    /\ now = 0
    /\ loop_pc = "update"
    /\ adv_idx = 0
    /\ active_connections = << >>
    /\ bcast_idx = 0
    /\ bcast_conn = "none"
    /\ disconnected = << >>
    /\ bcast_message = << >>
    /\ ws_pc = [w \in BroadcastWebSockets |-> "none"]
    /\ ws_open = [w \in BroadcastWebSockets |-> FALSE]
    /\ response = 0
    /\ ticks_begun = 0
    /\ tick_budget = MaxTicks
    /\ tick_open = FALSE
    /\ not_yet_sent = {}

NextBroadcast ==
    \/ UpdateWhileStopped
    \/ UpdateBegin
    \/ GlobalCoupling
    \/ UpdateMetrics
    \/ BroadcastCheck
    \/ SendDone
    \/ SleepDone
    \/ StartHandler
    \/ \E w \in BroadcastWebSockets : WsConnect(w)
    \/ \E w \in BroadcastWebSockets : WsInitialSent(w)
    \/ \E w \in BroadcastWebSockets : WsReceiveDisconnect(w)
    \/ \E w \in BroadcastWebSockets : WsClientClose(w)

SpecBroadcast == InitBroadcast /\ [][NextBroadcast]_vars

----------------------------------------------------------------------------
(* Properties *)

\* the oscillator keyed id
Lookup(d, id) == d[IndexOf(d, id)]

\* C1: create with an id that is already a key of the registry fails with
\* AlreadyExists (HTTP 409) and leaves the registry unchanged.
C1_CreateExistingRejected ==
    [][\A id \in ParticleIds, rp \in RequestParameters :
          (id \in Keys(oscillators) /\ CreateHandler(id, rp))
              => (oscillators' = oscillators /\ response' = 409)]_vars

\* C2: remove(id) answers true and deletes exactly the oscillator keyed id
\* when id is in the registry, keeping every other oscillator and their
\* order; when id is absent it answers false (HTTP 404) and leaves every
\* field of the engine unchanged, hence the snapshot, which
\* get_simulation_state computes from those fields alone.
C2_RemoveExactlyOrNothing ==
    [][\A id \in ParticleIds :
          RemoveHandler(id) =>
              IF id \in Keys(oscillators)
              THEN /\ response' = 200
                   /\ Keys(oscillators') = Keys(oscillators) \ {id}
                   /\ Len(oscillators') = Len(oscillators) - 1
                   /\ \A k \in Keys(oscillators') :
                         Lookup(oscillators', k) = Lookup(oscillators, k)
                   /\ UNCHANGED <<simulation_time, is_running>>
              ELSE /\ response' = 404
                   /\ UNCHANGED engine_vars]_vars

\* a remove of an absent id has been answered while the engine holds an
\* oscillator that has been ticked
C2_Witness ==
    /\ response = 404
    /\ oscillators # << >>
    /\ simulation_time > 0

\* C3: a call of update_simulation while is_running is false changes nothing
\* of the engine (time, counters, fps, registry, every oscillator) and returns.
C3_StoppedTickIsNoOp ==
    [][(loop_pc = "update" /\ loop_pc' # "update" /\ ~is_running)
          => (UNCHANGED engine_vars /\ loop_pc' = "broadcast")]_vars

\* update_simulation has returned while stopped, with an engine that has
\* ticked before and holds an oscillator
C3_Witness ==
    /\ loop_pc = "broadcast"
    /\ ~is_running
    /\ simulation_time > 0
    /\ oscillators # << >>

\* C4: reset leaves simulation_time = 0, is_running = false and an empty
\* registry, so the snapshot reports oscillator_count = 0.
C4_ResetClears ==
    [][ResetHandler =>
          /\ simulation_time' = 0
          /\ is_running' = FALSE
          /\ oscillators' = << >>
          /\ get_simulation_state'.oscillator_count = 0]_vars

\* the engine after a reset that followed running ticks: the time is back at 0
C4_Witness ==
    /\ ticks_begun > 0
    /\ simulation_time = 0
    /\ oscillators = << >>
    /\ ~is_running
    /\ ~tick_open

\* C5: start sets is_running, stop clears it, and both leave the time, the
\* registry with every oscillator, the configuration and the fps accounting
\* as they are (so either is idempotent and a stop followed by a start
\* resumes from the same state).
C5_StartStopOnlyToggle ==
    [][/\ StartHandler => is_running' = TRUE
       /\ StopHandler => is_running' = FALSE
       /\ (StartHandler \/ StopHandler) =>
             UNCHANGED <<oscillators, simulation_time, update_rate, dt,
                         global_coupling, environmental_noise,
                         update_count, last_fps_time, current_fps>>]_vars

\* the simulation stopped after it ticked, time and oscillators kept
C5_Witness ==
    /\ ~is_running
    /\ simulation_time > 0
    /\ oscillators # << >>
    /\ \E i \in DOMAIN oscillators : Len(oscillators[i].state_history) > 0

RECURSIVE SumAxis(_, _)
SumAxis(d, axis) ==
    IF d = << >> THEN 0 ELSE Head(d).current_state[axis] + SumAxis(Tail(d), axis)

\* the step that is the global-coupling pass of a tick
CouplingPassStep == loop_pc = "coupling" /\ loop_pc' = "advance"

\* the sum over the pair at positions i, j of an axis is left as it was
PairSumKept(i, j, axis) ==
    oscillators'[i].current_state[axis] + oscillators'[j].current_state[axis]
        = oscillators[i].current_state[axis] + oscillators[j].current_state[axis]

\* C6: a history never holds more than max_history entries; every advance
\* appends its (time, state) sample at the end and, at capacity, evicts the
\* oldest entry, so the buffer always holds the most recent samples in the
\* order they were appended (with a constant step: the samples of the
\* last Len advances, their times one step apart up to current_time).
C6_HistoryBoundedFifo ==
    /\ [](\A i \in DOMAIN oscillators :
            LET o == oscillators[i]
                h == o.state_history
            IN  /\ Len(h) <= max_history
                /\ Len(h) = Min(o.current_time \div dt, max_history)
                /\ \A k \in DOMAIN h : h[k][1] = o.current_time - (Len(h) - k) * dt)
    /\ [][(loop_pc = "advance" /\ adv_idx' = adv_idx + 1) =>
            LET h == oscillators[adv_idx].state_history
                o2 == oscillators'[adv_idx]
                sample == <<o2.current_time, o2.current_state>>
            IN  o2.state_history =
                    IF Len(h) >= max_history THEN Append(Tail(h), sample)
                                             ELSE Append(h, sample)]_vars

\* an oscillator advanced more than max_history times: its buffer is full
\* and the oldest samples have been evicted
C6_Witness ==
    \E i \in DOMAIN oscillators :
        /\ oscillators[i].current_time > max_history * dt
        /\ Len(oscillators[i].state_history) = max_history
        /\ oscillators[i].state_history[1][1] > dt

\* C7 as stated: for any two oscillators of a registry of any size, the sums
\* of their a2 and of their a3 are the same after the global-coupling pass as
\* before it.
C7_EveryPairSumKept ==
    [][CouplingPassStep =>
          \A i, j \in DOMAIN oscillators :
              i < j => PairSumKept(i, j, "w2_energy") /\ PairSumKept(i, j, "w3_spin")]_vars

\* C7 amended: in a registry of exactly two oscillators the pair's sums of a2
\* and of a3 are the same after the global-coupling pass as before it; in a
\* registry of any size the sums of a2 and of a3 over all oscillators are.
C7_PairOfTwoAndTotalKept ==
    [][CouplingPassStep =>
          /\ Len(oscillators) = 2 =>
                PairSumKept(1, 2, "w2_energy") /\ PairSumKept(1, 2, "w3_spin")
          /\ SumAxis(oscillators', "w2_energy") = SumAxis(oscillators, "w2_energy")
          /\ SumAxis(oscillators', "w3_spin") = SumAxis(oscillators, "w3_spin")]_vars

\* the pass has just run over three oscillators, at least two of which were
\* far enough apart in a2 to exchange a non-zero amount
C7_Witness ==
    /\ loop_pc = "advance"
    /\ adv_idx = 1
    /\ Len(oscillators) = 3
    /\ global_coupling > 0
    /\ \E i, j \in DOMAIN oscillators :
          global_coupling
            * Abs(oscillators[i].current_state.w2_energy
                  - oscillators[j].current_state.w2_energy) >= 2 * SCALE * 10

\* C8: whenever a snapshot can be produced or a command executed (a handler
\* may run, or the loop is about to build its broadcast), no tick is partly
\* applied: every effect of each tick begun is in place.
C8_SnapshotsSeeWholeTicks ==
    (HandlerMayRun \/ loop_pc = "broadcast") => ~tick_open

\* C9: an error raised inside an iteration sends the loop to the one-second
\* backoff, not to its end and not to the per-tick sleep, and after every
\* backoff the loop is again about to call update_simulation.
C9_LoopSurvivesErrors ==
    /\ [][(loop_pc = "advance" /\ loop_pc' # "advance"
           /\ adv_idx <= Len(oscillators) /\ update_raises(oscillators[adv_idx]))
             => loop_pc' = "backoff"]_vars
    /\ [](loop_pc # "ended")
    /\ (loop_pc = "backoff") ~> (loop_pc = "update")

\* the loop is about to tick again after an iteration that raised
C9_Witness ==
    /\ loop_pc = "update"
    /\ tick_open
    /\ is_running

\* C10: every oscillator has stability and phase coherence in [0, 1] and a
\* magnitude >= 0.
C10_DerivedInRange ==
    \A i \in DOMAIN oscillators :
        /\ oscillators[i].stability_factor >= 0
        /\ oscillators[i].stability_factor <= SCALE
        /\ oscillators[i].phase_coherence >= 0
        /\ oscillators[i].phase_coherence <= SCALE
        /\ magnitude(oscillators[i].current_state) >= 0
        /\ get_oscillation_data(oscillators[i]).derived_properties.state_magnitude >= 0

\* an oscillator whose phase coherence has been computed from ten history
\* entries and whose state has been through global coupling passes
C10_Witness ==
    /\ Len(oscillators) = 2
    /\ global_coupling > 0
    /\ \E i \in DOMAIN oscillators :
          /\ Len(oscillators[i].state_history) > 10
          /\ oscillators[i].phase_coherence < SCALE

\* the sum of the oscillators' stability values
RECURSIVE StabilitySum(_)
StabilitySum(d) ==
    IF d = << >> THEN 0 ELSE Head(d).stability_factor + StabilitySum(Tail(d))

\* C11: the snapshot of an empty registry (which is computed without a
\* fault) reports average_stability 0, total_energy 0 and oscillator_count
\* 0; the snapshot of a non-empty registry reports as average_stability the
\* sum of the oscillators' stability values divided by their number.
C11_AverageStability ==
    LET snapshot == get_simulation_state
    IN  IF oscillators = << >>
        THEN /\ snapshot.global_metrics.average_stability = 0
             /\ snapshot.global_metrics.total_energy = 0
             /\ snapshot.oscillator_count = 0
        ELSE /\ snapshot.global_metrics.average_stability
                    = StabilitySum(oscillators) \div Len(oscillators)
             /\ snapshot.oscillator_count = Len(oscillators)

\* a request has been answered on a registry of two oscillators of different
\* stability, after a running tick
C11_Witness ==
    /\ response = 200
    /\ Len(oscillators) = 2
    /\ oscillators[1].stability_factor # oscillators[2].stability_factor
    /\ simulation_time > 0

\* the value of [lo, hi] nearest to x
Nearest(lo, hi, x) == IF x < lo THEN lo ELSE IF x > hi THEN hi ELSE x

\* C12: a configuration request sets each field it supplies to the supplied
\* value clamped to the field's range (global_coupling [0, 1],
\* environmental_noise [0, 0.1], update_rate [10, 120], with dt =
\* 1/update_rate), leaves each omitted field as it was, and reports the
\* values in effect; the three values are always inside their ranges and
\* dt > 0.
C12_ConfigClamped ==
    /\ [][\A config \in ConfigInputs :
            ConfigHandler(config) =>
              /\ global_coupling' =
                    IF "global_coupling" \in DOMAIN config
                    THEN Nearest(0, SCALE, config.global_coupling)
                    ELSE global_coupling
              /\ environmental_noise' =
                    IF "environmental_noise" \in DOMAIN config
                    THEN Nearest(0, SCALE \div 10, config.environmental_noise)
                    ELSE environmental_noise
              /\ update_rate' =
                    IF "update_rate" \in DOMAIN config
                    THEN Nearest(10, 120, config.update_rate)
                    ELSE update_rate
              /\ dt' = IF "update_rate" \in DOMAIN config
                       THEN TimeScale \div update_rate'
                       ELSE dt
              /\ update_simulation_config_result' =
                    [global_coupling |-> global_coupling',
                     environmental_noise |-> environmental_noise',
                     update_rate |-> update_rate']
              /\ response' = 200]_vars
    /\ [](/\ global_coupling >= 0 /\ global_coupling <= SCALE
          /\ environmental_noise >= 0 /\ environmental_noise <= SCALE \div 10
          /\ update_rate >= 10 /\ update_rate <= 120
          /\ dt > 0)

\* configuration requests have been answered that clamped one value from
\* below, one from above, and kept one that was inside its range
C12_Witness ==
    /\ response = 200
    /\ update_rate = 10
    /\ dt = TimeScale \div 10
    /\ global_coupling = 300
    /\ environmental_noise = SCALE \div 10

\* C13: a history query for a registered id and a count n answers with
\* min(n, history length) entries, the most recently appended ones in
\* chronological order (never more than n, also for n = 0); a query for an
\* id that is not registered answers NotFound (HTTP 404); neither changes the
\* engine.
C13_HistoryQueryMostRecent ==
    [][\A id \in ParticleIds, last_n \in HistoryCounts :
          HistoryHandler(id, last_n) =>
              IF id \in Keys(oscillators)
              THEN LET h == Lookup(oscillators, id).state_history
                       r == get_history_data(h, last_n)
                   IN  /\ response' = 200
                       /\ Len(r) = Min(last_n, Len(h))
                       /\ \A k \in DOMAIN r :
                             /\ r[k].time = h[Len(h) - Len(r) + k][1]
                             /\ r[k].state = h[Len(h) - Len(r) + k][2]
                       /\ UNCHANGED engine_vars
              ELSE /\ response' = 404
                   /\ UNCHANGED engine_vars]_vars

\* C14: a create request that leaves the id to the server (id omitted or
\* empty) adds an oscillator under a key that was not in the registry: the
\* number of oscillators grows by exactly one and every oscillator already
\* registered is left as it was.
C14_OmittedIdIsFresh ==
    [][\A rid \in OmittedIds, rp \in CreateRequestParameters :
          CreateRequestHandler(rid, rp) =>
              /\ Len(oscillators') = Len(oscillators) + 1
              /\ \A i \in DOMAIN oscillators : oscillators'[i] = oscillators[i]]_vars

\* the step is a pass of the for loop of update_simulation over the
\* oscillator at position adv_idx (whether update_oscillations returns or
\* raises)
AdvanceStep ==
    /\ loop_pc = "advance"
    /\ adv_idx <= Len(oscillators)
    /\ loop_pc' \in {"advance", "backoff"}
    /\ oscillators' # oscillators

\* C15: an oscillator's elapsed time (current_time) is 0 at creation and no
\* advance decreases it, whatever noise factor is drawn and whatever value
\* of its range environmental_noise has; the times stored in its history
\* are in non-decreasing order.
C15_ElapsedTimeNonDecreasing ==
    /\ [][AdvanceStep =>
            oscillators'[adv_idx].current_time >= oscillators[adv_idx].current_time]_vars
    /\ [](\A i \in DOMAIN oscillators :
            LET o == oscillators[i]
                h == o.state_history
            IN  /\ o.current_time >= 0
                /\ h = << >> /\ ~tick_open => o.current_time = 0
                /\ \A k \in 1..(Len(h) - 1) : h[k][1] <= h[k + 1][1])

\* C16: simulation_time changes in two ways only: a call of
\* update_simulation while running adds exactly the current dt (which is
\* positive, so the time strictly grows), and a reset sets it to 0.  A call
\* of update_simulation while stopped and the create, remove, start, stop,
\* configuration and state requests leave it as it is.
C16_SimulationTimeSteps ==
    [][/\ simulation_time' # simulation_time =>
            \/ /\ loop_pc = "update" /\ is_running
               /\ simulation_time' = simulation_time + dt
            \/ /\ HandlerMayRun /\ simulation_time' = 0
               /\ oscillators' = << >> /\ ~is_running'
       /\ (loop_pc = "update" /\ loop_pc' # "update" /\ is_running) =>
            /\ simulation_time' = simulation_time + dt
            /\ simulation_time' > simulation_time
       /\ ResetHandler => simulation_time' = 0
       /\ ( \/ UpdateWhileStopped
            \/ \E id \in ParticleIds, rp \in RequestParameters : CreateHandler(id, rp)
            \/ \E id \in ParticleIds : RemoveHandler(id)
            \/ StartHandler
            \/ StopHandler
            \/ GetStateHandler
            \/ \E config \in ConfigRequests : ConfigHandler(config) )
          => simulation_time' = simulation_time]_vars

\* two running ticks have been made with different values of dt (a
\* configuration request in between), without a reset
C16_Witness ==
    /\ ticks_begun = 2
    /\ simulation_time = StepOf(60) + StepOf(10)
    /\ dt = StepOf(10)
    /\ oscillators # << >>

\* noise and global coupling are off and the registry holds one oscillator
NoiseFree ==
    /\ environmental_noise = 0
    /\ global_coupling = 0
    /\ Len(oscillators) = 1

\* C17: with environmental_noise = 0, global_coupling = 0 and a single
\* oscillator, the oscillator after each step of a tick is determined by
\* the oscillator before it and dt: the coupling pass leaves it as it is,
\* and the advance gives, whatever value is drawn, the one result of
\* update_oscillations on the current oscillator with the step dt (state,
\* elapsed time, derived scalars and history alike).
C17_NoiseFreeTickIsFunction ==
    [][NoiseFree =>
          /\ CouplingPassStep => oscillators' = oscillators
          /\ AdvanceStep =>
                /\ oscillators' = <<update_oscillations(oscillators[1], dt)>>
                /\ \A z \in NormalDraws :
                      oscillators'[1] =
                          update_oscillations(oscillators[1],
                                              modified_dt(dt, environmental_noise, z))]_vars

\* a single oscillator has been advanced twice with noise and global
\* coupling off, the second time with another dt than the first
C17_Witness ==
    /\ NoiseFree
    /\ Len(oscillators[1].state_history) = 2
    /\ oscillators[1].state_history[1][1] = StepOf(60)
    /\ oscillators[1].current_time = StepOf(60) + StepOf(30)

\* C18: after the tick of an iteration the loop, if at least one connection
\* is attached, takes one snapshot of the engine as that tick left it and
\* sends that snapshot to every attached connection (when the broadcast
\* returns, a send has been attempted to every connection that was attached
\* when it began and still is);
\* if none is attached it takes no snapshot and sends nothing.
C18_BroadcastAfterTick ==
    [][/\ (loop_pc = "broadcast" /\ loop_pc' # "broadcast") =>
            IF Len(active_connections) > 0
            THEN /\ loop_pc' = "send"
                 /\ bcast_message' = <<get_visualization_data>>
                 /\ ~tick_open
            ELSE /\ loop_pc' = "sleep"
                 /\ bcast_message' = << >>
       /\ (loop_pc = "send" /\ loop_pc' = "send") =>
            /\ bcast_message' = bcast_message
            /\ bcast_message # << >>
       /\ (loop_pc = "send" /\ loop_pc' = "sleep") =>
            (not_yet_sent \ {bcast_conn}) \cap Members(active_connections) = {}]_vars

\* the ids of the particles of a visualization payload
ParticleIdsOf(viz) == {viz.particles[i].id : i \in DOMAIN viz.particles}

\* C19: get_simulation_state and get_visualization_data change nothing: the
\* step that answers either request leaves the registry with every
\* oscillator's state, derived scalars and history, simulation_time, the
\* running flag, the configuration and the fps accounting as they were; and
\* in every state the oscillator_count of the snapshot is the number of keys
\* of its 'oscillators' mapping, whose keys are the registry's keys (as are
\* the ids of the visualization payload's particles).
C19_SnapshotsMutateNothing ==
    /\ [][(GetStateHandler \/ GetVisualizationHandler) =>
            /\ oscillators' = oscillators
            /\ simulation_time' = simulation_time
            /\ is_running' = is_running
            /\ <<update_rate, dt, global_coupling, environmental_noise>>' =
                   <<update_rate, dt, global_coupling, environmental_noise>>
            /\ <<update_count, last_fps_time, current_fps>>' =
                   <<update_count, last_fps_time, current_fps>>]_vars
    /\ [](LET state == get_simulation_state
          IN  /\ state.oscillator_count = Cardinality(DOMAIN state.oscillators)
              /\ DOMAIN state.oscillators = Keys(oscillators)
              /\ ParticleIdsOf(get_visualization_data) = Keys(oscillators)
              /\ Len(get_visualization_data.particles) = state.oscillator_count)

\* a snapshot request can be answered between two ticks of a running
\* simulation that has two oscillators, one of them created again under its
\* id after the first tick (its history is the shorter one)
C19_Witness ==
    /\ response = 200
    /\ loop_pc = "sleep"
    /\ is_running
    /\ ticks_begun = 2
    /\ Len(oscillators) = 2
    /\ get_simulation_state.oscillator_count = 2
    /\ Len(oscillators[1].state_history) = 1
    /\ Len(oscillators[2].state_history) = 2

\* the entry the registry holds under a key
Entry(d, id) == d[IndexOf(d, id)]

\* C20: an oscillator that was removed, or cleared by reset, is gone: the
\* remove of a key leaves the registry without it and a reset leaves the
\* registry empty; a key the registry does not hold is in no snapshot and no
\* visualization payload; the coupling pass and the advance of a tick work on
\* the registry's entries alone and bring no key in or out.  A key the
\* registry does not hold comes into it only by a create under that key, and
\* the oscillator registered then has the state (0, 1, 0, 1), elapsed time 0,
\* an empty history and the constructor's derived scalars, whatever was held
\* under the key before.
C20_RemovedIsGone ==
    /\ [][/\ \A id \in ParticleIds :
                RemoveHandler(id) => id \notin Keys(oscillators')
          /\ ResetHandler => oscillators' = << >>
          /\ (CouplingPassStep \/ AdvanceStep) =>
                /\ Keys(oscillators') = Keys(oscillators)
                /\ Len(oscillators') = Len(oscillators)
          /\ \A id \in ParticleIds :
                (id \notin Keys(oscillators) /\ id \in Keys(oscillators')) =>
                    /\ \E rp \in QueryRequestParameters : CreateHandler(id, rp)
                    /\ Keys(oscillators') = Keys(oscillators) \cup {id}
                    /\ LET o == Entry(oscillators', id)
                       IN  /\ o.current_state = [w1_projection |-> 0,
                                                 w2_energy |-> SCALE,
                                                 w3_spin |-> 0,
                                                 w4_mass |-> SCALE]
                           /\ o.current_time = 0
                           /\ o.state_history = << >>
                           /\ o.stability_factor = SCALE
                           /\ o.energy_total = 0
                           /\ o.phase_coherence = SCALE]_vars
    /\ [](\A id \in ParticleIds :
            id \notin Keys(oscillators) =>
                /\ id \notin DOMAIN get_simulation_state.oscillators
                /\ id \notin ParticleIdsOf(get_visualization_data))

\* after a reset that followed two ticks, one oscillator is registered again
\* in its constructor state and a request has been answered
C20_Witness ==
    /\ ticks_begun = 2
    /\ simulation_time = 0
    /\ ~is_running
    /\ response = 200
    /\ Keys(oscillators) = {"a"}
    /\ Entry(oscillators, "a").current_time = 0
    /\ Entry(oscillators, "a").state_history = << >>
    /\ get_simulation_state.oscillator_count = 1

\* the FPS accounting of the engine
fps_accounting == <<update_count, last_fps_time, current_fps>>

\* the elapsed times of the oscillators, in registry order
ElapsedTimes(d) == [i \in DOMAIN d |-> d[i].current_time]

C22_EachAdvancedOncePerTick ==
    [][/\ (loop_pc = "coupling" /\ loop_pc' = "advance") => adv_idx' = 1
       /\ (loop_pc = "advance" /\ adv_idx <= Len(oscillators)) =>
            /\ loop_pc' = "advance"
            /\ adv_idx' = adv_idx + 1
            /\ Len(oscillators') = Len(oscillators)
            /\ \A i \in DOMAIN oscillators :
                  Len(oscillators'[i].state_history) =
                      IF i = adv_idx
                      THEN Min(Len(oscillators[i].state_history) + 1, max_history)
                      ELSE Len(oscillators[i].state_history)
       /\ (loop_pc = "advance" /\ loop_pc' # "advance") =>
            adv_idx = Len(oscillators) + 1]_vars

\* C23: in update_oscillations the four new axis values are computed from the
\* state held on entry: with (p1, p2, p3, p4) that state, t the new elapsed
\* time, c the coupling strength and d the damping, the state written is
\* d * (base1(t) + c * (0.3 p2 + 0.2 p4)), d * (base2(t) + c * (0.4 p3 + 0.1 p1)),
\* d * (base3(t) + c * 0.5 p2 + 0.3 sin(6 pi f t)), d * (base4(t) + c * 0.15 p1);
\* no axis uses a value written by the same call.
C23_AxesFromPriorState ==
    [][(AdvanceStep /\ loop_pc' = "advance") =>
          LET prior == oscillators[adv_idx].current_state
              new == oscillators'[adv_idx].current_state
              t == oscillators'[adv_idx].current_time
              q == oscillators[adv_idx].params
              c == q.coupling_strength
              d == q.damping_factor
          IN  /\ new.w1_projection =
                    Mul(BaseOscillation(q.amplitude_w1, q.base_frequency, 10, t, q.phase_w1)
                        + Mul(c, (prior.w2_energy * 3 + prior.w4_mass * 2) \div 10), d)
              /\ new.w2_energy =
                    Mul(BaseOscillation(q.amplitude_w2, q.base_frequency, 12, t, q.phase_w2)
                        + Mul(c, (prior.w3_spin * 4 + prior.w1_projection * 1) \div 10), d)
              /\ new.w3_spin =
                    Mul(BaseOscillation(q.amplitude_w3, q.base_frequency, 8, t, q.phase_w3)
                        + Mul(c, (prior.w2_energy * 5) \div 10)
                        + (3 * Sin(q.base_frequency * 30 * t)) \div 10, d)
              /\ new.w4_mass =
                    Mul(BaseOscillation(q.amplitude_w4, q.base_frequency, 11, t, q.phase_w4)
                        + Mul(c, (prior.w1_projection * 15) \div 100), d)]_vars

\* the first of two oscillators has been advanced for the second time, after
\* its first advance had stored a state whose four components are all
\* non-zero
C23_Witness ==
    /\ loop_pc = "advance"
    /\ adv_idx = 2
    /\ Len(oscillators) = 2
    /\ Len(oscillators[1].state_history) = 2
    /\ LET stored == oscillators[1].state_history[1][2]
       IN  /\ stored.w1_projection # 0
           /\ stored.w2_energy # 0
           /\ stored.w3_spin # 0
           /\ stored.w4_mass # 0
    /\ oscillators[1].current_state = oscillators[1].state_history[2][2]

\* C24: after every advance the phase_coherence of the advanced oscillator is
\* the value of the coherence rule on the history as it stands after that
\* advance, whose newest entry is the state the advance produced: 1.0 when
\* the history then holds fewer than 10 entries, otherwise the clamped value
\* over its 10 most recent entries.
C24_CoherenceFromUpdatedHistory ==
    [][(AdvanceStep /\ loop_pc' = "advance") =>
          LET o == oscillators'[adv_idx]
              n == Len(o.state_history)
          IN  /\ o.state_history[n] = <<o.current_time, o.current_state>>
              /\ o.phase_coherence =
                    IF n < 10 THEN SCALE
                    ELSE Clamp(0, SCALE,
                               SCALE - (SumPhaseDiffs(o.state_history, n - 8, n) \div 9) \div 4)]_vars

\* the history h2 holds every entry of h1 unchanged and in order, but for
\* the oldest one when h1 was full, and one new entry at its end
KeepsEntries(h1, h2) ==
    IF Len(h1) < max_history
    THEN Len(h2) = Len(h1) + 1 /\ SubSeq(h2, 1, Len(h1)) = h1
    ELSE Len(h2) = max_history /\ SubSeq(h2, 1, max_history - 1) = Tail(h1)

\* C25: a history entry never changes once appended: the global-coupling
\* pass, which changes current states in place, leaves every history as it
\* was, and an advance leaves every entry of the advanced oscillator's
\* history as it was (moved down by one position when the oldest entry is
\* evicted) and every other oscillator's history untouched; the entry an
\* advance appends is the pair of the new elapsed time and the new state.
C25_HistoryEntriesImmutable ==
    [][/\ CouplingPassStep =>
            \A i \in DOMAIN oscillators :
                oscillators'[i].state_history = oscillators[i].state_history
       /\ AdvanceStep =>
            \A i \in DOMAIN oscillators :
                IF i = adv_idx /\ loop_pc' = "advance"
                THEN /\ KeepsEntries(oscillators[i].state_history,
                                     oscillators'[i].state_history)
                     /\ oscillators'[i].state_history[Len(oscillators'[i].state_history)]
                            = <<oscillators'[i].current_time, oscillators'[i].current_state>>
                ELSE oscillators'[i].state_history = oscillators[i].state_history]_vars

\* two oscillators with full histories from which entries have been evicted;
\* the pass of the tick under way has changed the first one's current state,
\* which differs from the state of its newest history entry
C25_Witness ==
    /\ loop_pc = "advance"
    /\ adv_idx = 1
    /\ ticks_begun > max_history + 1
    /\ Len(oscillators) = 2
    /\ Len(oscillators[1].state_history) = max_history
    /\ oscillators[1].current_state # oscillators[1].state_history[max_history][2]
    /\ oscillators[1].state_history[1][1] > StepOf(10)

\* the registry after oscillator.update_oscillations(step) on the entry at
\* position i
AdvanceAt(d, i, step) == [d EXCEPT ![i] = update_oscillations(@, step)]

\* the time increments an advance may be given in this state
ModifiedSteps == {modified_dt(dt, environmental_noise, z) : z \in NormalDraws}

\* C26: the advance of one oscillator reads and writes only that oscillator:
\* the step leaves every other entry of the registry as it was, and the
\* advanced entry afterwards is determined by that entry before and the time
\* increment alone; hence, for two oscillators and any two increments,
\* advancing the first and then the second gives the same registry as
\* advancing the second and then the first.
C26_AdvanceTouchesOneOscillator ==
    /\ [][(AdvanceStep /\ loop_pc' = "advance") =>
            /\ \A i \in DOMAIN oscillators :
                  i # adv_idx => oscillators'[i] = oscillators[i]
            /\ \E step \in ModifiedSteps :
                  oscillators'[adv_idx] = update_oscillations(oscillators[adv_idx], step)]_vars
    /\ []((loop_pc = "advance" /\ adv_idx = 1 /\ Len(oscillators) = 2) =>
            \A step1, step2 \in ModifiedSteps :
                AdvanceAt(AdvanceAt(oscillators, 1, step1), 2, step2)
                    = AdvanceAt(AdvanceAt(oscillators, 2, step2), 1, step1))

\* both of two oscillators with different parameters have been advanced in
\* the second tick, the second one from a state other than the first one's
C26_Witness ==
    /\ loop_pc = "advance"
    /\ adv_idx = 3
    /\ ticks_begun = 2
    /\ Len(oscillators) = 2
    /\ oscillators[1].params # oscillators[2].params
    /\ Len(oscillators[1].state_history) = 2
    /\ Len(oscillators[2].state_history) = 2
    /\ oscillators[1].state_history[1][2] # oscillators[2].state_history[1][2]

\* the accounting of one tick: the counter goes up by one; if a second or
\* more has passed since the window start, fps becomes counter / elapsed, the
\* counter 0 and the window start the current reading of the clock
MetricsStep ==
    LET counter == update_count + 1
        elapsed == now - last_fps_time
    IN  IF elapsed >= 1
        THEN /\ current_fps' = (counter * SCALE) \div elapsed
             /\ update_count' = 0
             /\ last_fps_time' = now
        ELSE /\ update_count' = counter
             /\ last_fps_time' = last_fps_time
             /\ current_fps' = current_fps

\* C27: every running tick does the accounting exactly once, as its last
\* step: the counter is incremented, and fps, counter and window start are
\* renewed when at least one second has passed since the window start and
\* fps is left alone otherwise; nothing else, and in particular no start,
\* stop or reset, changes the counter, the window start or fps.
C27_FpsAccounting ==
    [][/\ (loop_pc = "advance" /\ loop_pc' # "advance") => MetricsStep
       /\ fps_accounting' # fps_accounting =>
            /\ loop_pc = "advance"
            /\ loop_pc' = "broadcast"
            /\ MetricsStep
       /\ (StartHandler \/ StopHandler \/ ResetHandler) =>
            fps_accounting' = fps_accounting]_vars

\* whether a snapshot can be taken in this state: by a request handler, or
\* by the loop for its broadcast
SnapshotMayBeTaken == HandlerMayRun \/ loop_pc = "broadcast"

\* C28: in every snapshot the stability and the energy_total reported for an
\* oscillator are the values of the stability rule and of the energy rule on
\* the state reported for it in the same snapshot, whether the oscillator has
\* been advanced or only created.
C28_DerivedMatchReportedState ==
    SnapshotMayBeTaken =>
        \A id \in DOMAIN get_simulation_state.oscillators :
            LET data == get_simulation_state.oscillators[id]
            IN  /\ data.derived_properties.stability_factor
                       = _calculate_stability(data.state)
                /\ data.derived_properties.energy_total
                       = _calculate_total_energy(data.parameters, data.state)

\* an oscillator but for the a2 and a3 of its current state
BesidesCoupledAxes(o) ==
    [o EXCEPT !.current_state.w2_energy = 0, !.current_state.w3_spin = 0]

\* C29: the global-coupling pass conserves the totals over the registry: the
\* sum of a2 over all oscillators and the sum of a3 over all oscillators are
\* after the pass what they were before it, whatever the size of the
\* registry; the pass changes nothing else of any oscillator (a1, a4, elapsed
\* time, derived scalars, history, parameters) and neither the registry's
\* keys nor their order; over three oscillators it is the exchange of the
\* pairs (1, 2), (1, 3), (2, 3), each pair once.
C29_CouplingConservesTotals ==
    [][CouplingPassStep =>
          /\ SumAxis(oscillators', "w2_energy") = SumAxis(oscillators, "w2_energy")
          /\ SumAxis(oscillators', "w3_spin") = SumAxis(oscillators, "w3_spin")
          /\ Len(oscillators') = Len(oscillators)
          /\ \A i \in DOMAIN oscillators :
                BesidesCoupledAxes(oscillators'[i]) = BesidesCoupledAxes(oscillators[i])
          /\ Len(oscillators) = 3 =>
                oscillators' =
                    CouplePair(CouplePair(CouplePair(oscillators, global_coupling, 1, 2),
                                          global_coupling, 1, 3),
                               global_coupling, 2, 3)]_vars

\* the pass of the second tick has just run over three oscillators and has
\* changed the a2 of each of them: none is the a2 its advance stored
C29_Witness ==
    /\ loop_pc = "advance"
    /\ adv_idx = 1
    /\ ticks_begun = 2
    /\ Len(oscillators) = 3
    /\ \A i \in DOMAIN oscillators :
          /\ Len(oscillators[i].state_history) = 1
          /\ oscillators[i].current_state.w2_energy
                # oscillators[i].state_history[1][2].w2_energy
          /\ oscillators[i].current_state.w1_projection
                = oscillators[i].state_history[1][2].w1_projection

\* the web sockets whose session handler is running
HandlerRunning == {w \in DOMAIN ws_pc : ws_pc[w] \in {"initial_send", "receive"}}

\* C30: a web socket whose session handler has ended is not in
\* manager.active_connections: the list holds only connections whose handler
\* is still running.
C30_EndedHandlerNotActive ==
    Members(active_connections) \subseteq HandlerRunning

\* the connections whose send has failed in the broadcast under way, the one
\* being sent to included once its client has closed
SendFailed ==
    Members(disconnected) \cup (IF ws_open[bcast_conn] THEN {} ELSE {bcast_conn})

\* C31: when a broadcast returns, it has attempted a send to every
\* connection that was in active_connections when it started, it has removed
\* from active_connections exactly the connections whose send failed and
\* kept the others, and it returns to the loop normally (the loop goes on to
\* its sleep, not to its except clause).
C31_BroadcastReachesAll ==
    [][(loop_pc = "send" /\ loop_pc' # "send") =>
          /\ loop_pc' = "sleep"
          /\ not_yet_sent \ {bcast_conn} = {}
          /\ Members(active_connections') = Members(active_connections) \ SendFailed
          /\ Len(active_connections') = Cardinality(Members(active_connections'))]_vars

====
